---- MODULE Spec2Model ----
(***************************************************************************)
(* Transport CA reconciliation of the Elasticsearch controller, and the    *)
(* readiness check of its services (IsServiceReady, at the end):           *)
(* ReconcileOrRetrieveCA picks, on every reconciliation pass, the CA that  *)
(* secures transport traffic: a user-provided custom CA, the shared global *)
(* CA, or the operator's self-signed CA.  A pass is a sequence of calls to *)
(* the dynamic watch registry and to the secret store; passes of different *)
(* clusters interleave between those calls.                                *)
(***************************************************************************)
EXTENDS Integers, Sequences, FiniteSets, TLC

(* ---------------------------- bounds ----------------------------------- *)

\* the clock runs from 0 to MaxTime
MaxTime == 2

\* number of self-signed CAs generated per cluster
MaxGen == 2

\* number of steps taken when the passes of all clusters interleave
MaxSteps == 6

\* subsets of an Endpoints object
MaxSubsets == 2

\* addresses of a subset
MaxAddresses == 2

(* ------------------------- values -------------------------------------- *)

\* two clusters with the same name in two namespaces
Cluster1 == [namespace |-> "ns1", name |-> "es"]

Cluster2 == [namespace |-> "ns2", name |-> "es"]

Clusters == {Cluster1, Cluster2}

\* es.Spec.Transport.TLS.Certificate.SecretName; the empty name is "no reference"
NoRef == ""

SecretNames == {"ca1", "ca2"}

Refs == {NoRef} \cup SecretNames

NoErr == "nil"

ErrNotFound == "NotFound"

ErrUnavailable == "Unavailable"

ErrInvalid == "InvalidCA"

ErrWatch == "WatchFailed"

\* a CA, and the payload of a secret, are records of one shape
CA(kind, id, notAfter) == [kind |-> kind, id |-> id, notAfter |-> notAfter]

NoCA == CA("none", 0, 0)

\* the shared CA the caller may supply
GlobalCA == CA("global", 1, 0)

\* no secret under that key
Absent == CA("absent", 0, 0)

\* payloads users put in the secrets they reference
PemA == CA("pem", 1, 0)

PemB == CA("pem", 2, 0)

Garbage == CA("garbage", 0, 0)

UserPayloads == {PemA, PemB, Garbage}

\* certificates.RotationParams, the same on every pass
RotationParams == [validity |-> 2, rotateBefore |-> 1]

(* ------------------------- names --------------------------------------- *)

\* esv1.ESNamer.Suffix
ESNamerSuffix(name, suffix) == name \o "-es-" \o suffix

CustomTransportCertsWatchKey(es) == ESNamerSuffix(es.name, "custom-transport-certs")

\* certificates.CAInternalSecretName for the transport CA
CAInternalSecretName(name) == ESNamerSuffix(name, "transport-ca-internal")

SecretKey(namespace, name) == [namespace |-> namespace, name |-> name]

\* slip: the self-signed CA secret is looked for in one namespace, whatever the cluster
SelfSignedSecretKeyOneNamespace(es) == SecretKey(Cluster1.namespace, CAInternalSecretName(es.name))

\* the object handed to Delete: the self-signed CA secret of the cluster
SelfSignedSecretKey(es) == SecretKey(es.namespace, CAInternalSecretName(es.name))

Namespaces == {c.namespace : c \in Clusters}

UserKeys == {SecretKey(ns, n) : ns \in Namespaces, n \in SecretNames}

StoreKeys == UserKeys \cup {SelfSignedSecretKey(c) : c \in Clusters}

(* ------------------------- services ------------------------------------ *)

\* two services with the same name in two namespaces
Services == {[namespace |-> ns, name |-> "es-http"] : ns \in Namespaces}

ServiceKeys == {SecretKey(svc.namespace, svc.name) : svc \in Services}

\* corev1.EndpointSubset, by the length of its Addresses
Subset(addresses) == [addresses |-> addresses]

Subsets == {Subset(n) : n \in 0..MaxAddresses}

\* corev1.Endpoints{}: the zero value Get is handed, also what the store holds
\* where there is no object
NoEndpoints == [exists |-> FALSE, subsets |-> << >>]

\* the Endpoints objects the store can hold under a key
EndpointsValues ==
  {NoEndpoints} \cup
  {[exists |-> TRUE, subsets |-> subs] :
     subs \in UNION {[1..n -> Subsets] : n \in 0..MaxSubsets}}

\* c.Get: the object under the key, or an error
Get(store, key, unavailable) ==
  IF unavailable THEN [obj |-> NoEndpoints, err |-> ErrUnavailable]
  ELSE IF ~store[key].exists THEN [obj |-> NoEndpoints, err |-> ErrNotFound]
  ELSE [obj |-> store[key], err |-> NoErr]

\* slip: only the first subset is looked at
FirstSubsetHasAddresses(subsets, i) ==
  i <= Len(subsets) /\ subsets[i].addresses > 0

\* for _, subs := range endpoints.Subsets: from subset i on, is there one with
\* len(subs.Addresses) > 0
RECURSIVE SomeSubsetHasAddresses(_, _)
SomeSubsetHasAddresses(subsets, i) ==
  IF i > Len(subsets) THEN FALSE
  ELSE IF subsets[i].addresses > 0 THEN TRUE
  ELSE SomeSubsetHasAddresses(subsets, i + 1)

\* IsServiceReady(c, service): the pair it returns
IsServiceReady(store, service, unavailable) ==
  LET got == Get(store, SecretKey(service.namespace, service.name), unavailable)
  IN IF got.err # NoErr
       THEN [ok |-> FALSE, err |-> got.err]
       ELSE [ok |-> SomeSubsetHasAddresses(got.obj.subsets, 1), err |-> NoErr]

\* no call of IsServiceReady yet
NotCalled ==
  [called |-> FALSE, service |-> [namespace |-> "", name |-> ""], unavailable |-> FALSE,
   ok |-> FALSE, err |-> NoErr]

VARIABLES
  spec,      \* spec[c]: the custom CA reference in the cluster's desired state
  secrets,   \* the secret store: key -> payload, or Absent
  watches,   \* the dynamic watch registry: a set of registrations
  now,       \* the clock
  gen,       \* gen[c]: self-signed CAs generated for c so far
  steps,     \* steps taken so far, counted when all clusters are reconciled
  pc,        \* pc[c]: where the pass of cluster c stands
  pass,      \* pass[c]: inputs, calls and outcome of the current or last pass
  last,      \* last[c]: the self-signed CA returned by the pass before, if any
  observed,  \* observed[c]: the reference of the last pass whose watch step succeeded
  prev,      \* prev[c]: the pass before, kept where passes are compared with it
  endpoints, \* the Endpoints objects of the store: key -> object, or NoEndpoints
  ready      \* the last call of IsServiceReady: its arguments and what it returned

caVars == <<spec, secrets, watches, now, gen, steps, pc, pass, last, observed, prev>>

vars == <<spec, secrets, watches, now, gen, steps, pc, pass, last, observed, prev,
          endpoints, ready>>

(* -------------------- collaborators of the pass ------------------------ *)

\* dynamic watches: a registration names the secret whose changes re-queue its owner
Registration(key, owner, target) == [key |-> key, owner |-> owner, target |-> target]

\* Register: the handler stored under a key replaces the one already there
Register(reg, key, owner, target) ==
  {w \in reg : w.key # key} \cup {Registration(key, owner, target)}

\* Unregister: drops whatever is stored under the key
Unregister(reg, key) == {w \in reg : w.key # key}

\* certificates.ReconcileCustomCertWatch: watch the referenced secret, or remove
\* the watch when there is no reference; a failure leaves the registry as it was
ReconcileCustomCertWatch(reg, key, owner, ref, fail) ==
  IF fail THEN [watches |-> reg, err |-> ErrWatch]
  ELSE IF ref # NoRef
    THEN [watches |-> Register(reg, key, owner, SecretKey(owner.namespace, ref)),
          err |-> NoErr]
    ELSE [watches |-> Unregister(reg, key), err |-> NoErr]

\* certificates.GetSecretFromRef: nil without a reference, else the secret of that
\* name in the owner's namespace, or the error of the store
GetSecretFromRef(store, owner, ref, unavailable) ==
  IF ref = NoRef THEN [found |-> FALSE, secret |-> Absent, err |-> NoErr]
  ELSE IF unavailable THEN [found |-> FALSE, secret |-> Absent, err |-> ErrUnavailable]
  ELSE IF store[SecretKey(owner.namespace, ref)] = Absent
    THEN [found |-> FALSE, secret |-> Absent, err |-> ErrNotFound]
    ELSE [found |-> TRUE, secret |-> store[SecretKey(owner.namespace, ref)], err |-> NoErr]

\* certificates.ParseCustomCASecret: the CA held by a well-formed secret
ParseCustomCASecret(secret) ==
  IF secret.kind = "pem"
    THEN [ca |-> CA("custom", secret.id, secret.notAfter), err |-> NoErr]
    ELSE [ca |-> NoCA, err |-> ErrInvalid]

\* a persisted self-signed CA is reused until it gets within rotateBefore of its expiry
CanReuseCA(payload, t, rotation) ==
  payload.kind = "selfsigned" /\ t + rotation.rotateBefore <= payload.notAfter

\* certificates.ReconcileCAForOwner: the persisted self-signed CA when it can be
\* reused, else a new one, persisted in place of the old; persisting may fail
ReconcileCAForOwner(store, es, t, g, rotation, fail) ==
  LET key == SelfSignedSecretKey(es)
      new == CA("selfsigned", g + 1, t + rotation.validity)
  IN IF CanReuseCA(store[key], t, rotation)
       THEN [ca |-> store[key], secrets |-> store, gen |-> g, err |-> NoErr]
     ELSE IF fail
       THEN [ca |-> NoCA, secrets |-> store, gen |-> g, err |-> ErrUnavailable]
       ELSE [ca |-> new, secrets |-> [store EXCEPT ![key] = new], gen |-> g + 1,
             err |-> NoErr]

\* k8s client Delete
Delete(store, key, fail) ==
  IF fail THEN [secrets |-> store, err |-> ErrUnavailable]
  ELSE IF store[key] = Absent THEN [secrets |-> store, err |-> ErrNotFound]
  ELSE [secrets |-> [store EXCEPT ![key] = Absent], err |-> NoErr]

\* Recorder().Eventf
Event(type, reason, message) == [type |-> type, reason |-> reason, message |-> message]

(* ----------------------------- a pass ---------------------------------- *)

\* what a pass was given, what it called and what it returned
NewPass(ref, globalCA, watched) ==
  [ ref |-> ref, globalCA |-> globalCA,
    watched |-> watched,   \* what the registry held under the cluster's key
    watch |-> "none",      \* err of the watch step
    fetch |-> "none",      \* err of GetSecretFromRef
    found |-> FALSE,       \* customCASecret != nil
    secret |-> Absent,     \* *customCASecret
    parse |-> "none",      \* err of ParseCustomCASecret
    custom |-> NoCA,       \* the parsed custom CA
    provisioned |-> FALSE, \* ReconcileCAForOwner was called
    deletes |-> 0,         \* Delete calls issued
    deleted |-> "none",    \* err of the Delete call
    events |-> << >>,      \* events emitted
    ca |-> NoCA, err |-> NoErr, source |-> "none" ]  \* the return values

Return(p, ca, err, source) == [p EXCEPT !.ca = ca, !.err = err, !.source = source]

\* slip: the error of the watch step is dropped and the pass ends without a result
OnWatchErrorSwallowed(p, err) == Return(p, NoCA, NoErr, "none")

\* if err != nil { return nil, err } after the watch step
OnWatchError(p, err) == Return(p, NoCA, err, "none")

\* slip: the error of GetSecretFromRef is returned without an event
OnGetErrorSilent(p, err) == Return(p, NoCA, err, "none")

\* GetSecretFromRef failed: event, return nil, err
OnGetError(p, err) ==
  Return([p EXCEPT !.events = Append(@, Event("Warning", "Unexpected", err))],
         NoCA, err, "none")

\* slip: the global CA is never used
UseGlobalCANever(p) == FALSE

\* slip: the global CA is returned even when there is none
UseGlobalCAAlways(p) == TRUE

\* customCASecret == nil and globalCA != nil: return globalCA, nil
UseGlobalCA(p) == p.globalCA # NoCA

\* slip: the validation error is reported twice, once as an unexpected error
OnParseErrorTwice(p, err) ==
  Return([p EXCEPT !.events = @ \o <<Event("Warning", "Unexpected", err),
                                     Event("Warning", "Validation", err)>>],
         NoCA, err, "none")

\* ParseCustomCASecret failed: event, return nil, err
OnParseError(p, err) ==
  Return([p EXCEPT !.events = Append(@, Event("Warning", "Validation", err))],
         NoCA, err, "none")

\* slip: the self-signed CA secret is collected before the custom CA is validated
AfterFetchCollectFirst(p, got) ==
  LET q == [p EXCEPT !.fetch = got.err, !.found = got.found, !.secret = got.secret]
      parsed == ParseCustomCASecret(got.secret)
  IN IF got.err # NoErr THEN [pc |-> "done", pass |-> OnGetError(q, got.err)]
     ELSE IF ~got.found
       THEN IF UseGlobalCA(q)
              THEN [pc |-> "done", pass |-> Return(q, q.globalCA, NoErr, "shared")]
              ELSE [pc |-> "provision", pass |-> q]
     ELSE [pc |-> "gc", pass |-> [q EXCEPT !.parse = parsed.err, !.custom = parsed.ca]]

\* slip: the global CA is looked at before the custom CA secret
AfterFetchGlobalFirst(p, got) ==
  LET q == [p EXCEPT !.fetch = got.err, !.found = got.found, !.secret = got.secret]
      parsed == ParseCustomCASecret(got.secret)
  IN IF got.err # NoErr THEN [pc |-> "done", pass |-> OnGetError(q, got.err)]
     ELSE IF UseGlobalCA(q)
       THEN [pc |-> "done", pass |-> Return(q, q.globalCA, NoErr, "shared")]
     ELSE IF ~got.found THEN [pc |-> "provision", pass |-> q]
     ELSE IF parsed.err # NoErr
       THEN [pc |-> "done", pass |-> OnParseError([q EXCEPT !.parse = parsed.err], parsed.err)]
       ELSE [pc |-> "gc", pass |-> [q EXCEPT !.parse = NoErr, !.custom = parsed.ca]]

\* slip: a referenced secret that is not found counts as no custom CA
AfterFetchFallsBack(p, got) ==
  LET q == [p EXCEPT !.fetch = got.err, !.found = got.found, !.secret = got.secret]
      parsed == ParseCustomCASecret(got.secret)
  IN IF got.err \notin {NoErr, ErrNotFound}
       THEN [pc |-> "done", pass |-> OnGetError(q, got.err)]
     ELSE IF ~got.found
       THEN IF UseGlobalCA(q)
              THEN [pc |-> "done", pass |-> Return(q, q.globalCA, NoErr, "shared")]
              ELSE [pc |-> "provision", pass |-> q]
     ELSE IF parsed.err # NoErr
       THEN [pc |-> "done", pass |-> OnParseError([q EXCEPT !.parse = parsed.err], parsed.err)]
       ELSE [pc |-> "gc", pass |-> [q EXCEPT !.parse = NoErr, !.custom = parsed.ca]]

\* the pass between the watch step and its next call to the store
AfterFetch(p, got) ==
  LET q == [p EXCEPT !.fetch = got.err, !.found = got.found, !.secret = got.secret]
      parsed == ParseCustomCASecret(got.secret)
  IN IF got.err # NoErr THEN [pc |-> "done", pass |-> OnGetError(q, got.err)]
     ELSE IF ~got.found
       THEN IF UseGlobalCA(q)
              THEN [pc |-> "done", pass |-> Return(q, q.globalCA, NoErr, "shared")]
              ELSE [pc |-> "provision", pass |-> q]
     ELSE IF parsed.err # NoErr
       THEN [pc |-> "done", pass |-> OnParseError([q EXCEPT !.parse = parsed.err], parsed.err)]
       ELSE [pc |-> "gc", pass |-> [q EXCEPT !.parse = NoErr, !.custom = parsed.ca]]

\* the result of ReconcileCAForOwner is the result of the pass
AfterProvision(p, r) ==
  Return([p EXCEPT !.provisioned = TRUE], r.ca, r.err,
         IF r.err = NoErr THEN "selfsigned" ELSE "none")

\* slip: a failed delete fails the pass
AfterDeletePropagate(p, err) ==
  IF err \in {NoErr, ErrNotFound}
    THEN Return([p EXCEPT !.deletes = @ + 1, !.deleted = err], p.custom, NoErr, "custom")
    ELSE Return([p EXCEPT !.deletes = @ + 1, !.deleted = err], NoCA, err, "none")

\* slip: the error of a failed delete is returned along with the CA
AfterDeleteWithError(p, err) ==
  Return([p EXCEPT !.deletes = @ + 1, !.deleted = err], p.custom,
         IF err \in {NoErr, ErrNotFound} THEN NoErr ELSE err, "custom")

\* slip: only a Delete that removed the secret lets the pass succeed
AfterDeleteNotFoundFails(p, err) ==
  IF err = NoErr
    THEN Return([p EXCEPT !.deletes = @ + 1, !.deleted = err], p.custom, NoErr, "custom")
    ELSE Return([p EXCEPT !.deletes = @ + 1, !.deleted = err], NoCA, err, "none")

\* a failed delete is logged; return ca, nil
AfterDelete(p, err) ==
  Return([p EXCEPT !.deletes = @ + 1, !.deleted = err], p.custom, NoErr, "custom")

\* the self-signed CA a pass returned, if it returned one
SelfSignedResult(p) == IF p.source = "selfsigned" THEN p.ca ELSE NoCA

\* what a pass is remembered by: what it read, what it returned, how its Delete call ended
Outcome(p) ==
  [ref |-> p.ref, secret |-> p.secret, source |-> p.source, ca |-> p.ca, err |-> p.err,
   deleted |-> p.deleted]

\* no pass has run, no user has written anything
NoPassYet ==
  /\ spec = [c \in Clusters |-> NoRef]
  /\ secrets = [k \in StoreKeys |-> Absent]
  /\ watches = {}
  /\ now = 0
  /\ gen = [c \in Clusters |-> 0]
  /\ steps = 0
  /\ pc = [c \in Clusters |-> "idle"]
  /\ pass = [c \in Clusters |-> NewPass(NoRef, NoCA, {})]
  /\ last = [c \in Clusters |-> NoCA]
  /\ observed = [c \in Clusters |-> "unobserved"]
  /\ prev = [c \in Clusters |-> Outcome(NewPass(NoRef, NoCA, {}))]

Init ==
  /\ NoPassYet
  /\ endpoints = [k \in ServiceKeys |-> NoEndpoints]
  /\ ready = NotCalled

\* the registrations held under the watch key of cluster c
RegistrationsOf(c) == {w \in watches : w.key = CustomTransportCertsWatchKey(c)}

\* slip: the watch step is skipped when the spec holds no reference
ReconcileWatchOnlyWithReference(reg, es, ref, fail) ==
  IF ref = NoRef THEN [watches |-> reg, err |-> NoErr]
  ELSE ReconcileCustomCertWatch(reg, CustomTransportCertsWatchKey(es), es, ref, fail)

\* slip: the pass goes on to the fetch without the watch step
ReconcileWatchLeftOut(reg, es, ref, fail) == [watches |-> reg, err |-> NoErr]

\* the watch step: the cluster's key, the cluster as owner, the reference of its spec
ReconcileWatch(reg, es, ref, fail) ==
  ReconcileCustomCertWatch(reg, CustomTransportCertsWatchKey(es), es, ref, fail)

\* a pass starts: the watch on the referenced secret is installed or removed
WatchStep(c, globalCA, fail) ==
  /\ pc[c] \in {"idle", "done"}
  /\ LET p == NewPass(spec[c], globalCA, RegistrationsOf(c))
         r == ReconcileWatch(watches, c, spec[c], fail)
     IN /\ watches' = r.watches
        /\ IF r.err # NoErr
             THEN /\ pass' = [pass EXCEPT ![c] = OnWatchError([p EXCEPT !.watch = r.err], r.err)]
                  /\ pc' = [pc EXCEPT ![c] = "done"]
                  /\ observed' = observed
             ELSE /\ pass' = [pass EXCEPT ![c] = [p EXCEPT !.watch = NoErr]]
                  /\ pc' = [pc EXCEPT ![c] = "fetch"]
                  /\ observed' = [observed EXCEPT ![c] = spec[c]]
  /\ last' = [last EXCEPT ![c] = SelfSignedResult(pass[c])]
  /\ UNCHANGED <<spec, secrets, now, gen>>

\* the referenced secret is fetched and parsed, and the source of the CA is chosen
FetchStep(c, unavailable) ==
  /\ pc[c] = "fetch"
  /\ LET r == AfterFetch(pass[c], GetSecretFromRef(secrets, c, pass[c].ref, unavailable))
     IN /\ pass' = [pass EXCEPT ![c] = r.pass]
        /\ pc' = [pc EXCEPT ![c] = r.pc]
  /\ UNCHANGED <<spec, secrets, watches, now, gen, last, observed>>

\* no custom CA and no global CA: the self-signed CA is reconciled
ProvisionStep(c, fail) ==
  /\ pc[c] = "provision"
  /\ LET r == ReconcileCAForOwner(secrets, c, now, gen[c], RotationParams, fail)
     IN /\ r.gen <= MaxGen
        /\ secrets' = r.secrets
        /\ gen' = [gen EXCEPT ![c] = r.gen]
        /\ pass' = [pass EXCEPT ![c] = AfterProvision(pass[c], r)]
  /\ pc' = [pc EXCEPT ![c] = "done"]
  /\ UNCHANGED <<spec, watches, now, last, observed>>

\* the custom CA is valid: the self-signed CA secret is garbage collected
DeleteStep(c, fail) ==
  /\ pc[c] = "gc"
  /\ LET r == Delete(secrets, SelfSignedSecretKey(c), fail)
     IN /\ secrets' = r.secrets
        /\ pass' = [pass EXCEPT ![c] = AfterDelete(pass[c], r.err)]
  /\ pc' = [pc EXCEPT ![c] = "done"]
  /\ UNCHANGED <<spec, watches, now, gen, last, observed>>

(* ---------------------- users and the clock ---------------------------- *)

\* a user sets, changes or removes the custom CA reference of a cluster
SetReference(c, ref) ==
  /\ spec[c] # ref
  /\ spec' = [spec EXCEPT ![c] = ref]
  /\ UNCHANGED <<secrets, watches, now, gen, pc, pass, last, observed>>

\* a user creates, rewrites or deletes one of their secrets
WriteSecret(k, payload) ==
  /\ secrets[k] # payload
  /\ secrets' = [secrets EXCEPT ![k] = payload]
  /\ UNCHANGED <<spec, watches, now, gen, pc, pass, last, observed>>

Tick ==
  /\ now < MaxTime
  /\ now' = now + 1
  /\ UNCHANGED <<spec, secrets, watches, gen, pc, pass, last, observed>>

\* a step of the run in which all clusters are reconciled
Counted(A) ==
  /\ steps < MaxSteps /\ steps' = steps + 1 /\ prev' = prev
  /\ UNCHANGED <<endpoints, ready>> /\ A

\* all clusters are reconciled, their passes interleaving call by call
Next ==
  \/ \E c \in Clusters, g \in {NoCA, GlobalCA}, fail \in BOOLEAN :
       Counted(WatchStep(c, g, fail))
  \/ \E c \in Clusters, unavailable \in BOOLEAN : Counted(FetchStep(c, unavailable))
  \/ \E c \in Clusters, fail \in BOOLEAN : Counted(ProvisionStep(c, fail))
  \/ \E c \in Clusters, fail \in BOOLEAN : Counted(DeleteStep(c, fail))
  \/ \E c \in Clusters, ref \in Refs : Counted(SetReference(c, ref))
  \/ \E k \in UserKeys, payload \in UserPayloads \cup {Absent} :
       Counted(WriteSecret(k, payload))
  \/ Counted(Tick)

Spec == Init /\ [][Next]_vars

\* a step of the run in which one cluster is reconciled, for as long as it takes
Free(A) == steps' = steps /\ prev' = prev /\ UNCHANGED <<endpoints, ready>> /\ A

\* the secrets users keep in the namespace of cluster c
UserKeysOf(c) == {k \in UserKeys : k.namespace = c.namespace}

NextOne ==
  \/ \E g \in {NoCA, GlobalCA}, fail \in BOOLEAN : Free(WatchStep(Cluster1, g, fail))
  \/ \E unavailable \in BOOLEAN : Free(FetchStep(Cluster1, unavailable))
  \/ \E fail \in BOOLEAN : Free(ProvisionStep(Cluster1, fail))
  \/ \E fail \in BOOLEAN : Free(DeleteStep(Cluster1, fail))
  \/ \E ref \in Refs : Free(SetReference(Cluster1, ref))
  \/ \E k \in UserKeysOf(Cluster1), payload \in UserPayloads \cup {Absent} :
       Free(WriteSecret(k, payload))
  \/ Free(Tick)

SpecOne == Init /\ [][NextOne]_vars

\* a pass of c starts and the pass before is remembered
Remembering(c, A) ==
  /\ steps' = steps /\ prev' = [prev EXCEPT ![c] = Outcome(pass[c])]
  /\ UNCHANGED <<endpoints, ready>> /\ A

\* the one secret the cluster of SpecRerun can reference
RerunRef == "ca1"

\* one cluster is reconciled, pass after pass, each pass compared with the one before
NextRerun ==
  \/ \E g \in {NoCA, GlobalCA}, fail \in BOOLEAN :
       Remembering(Cluster1, WatchStep(Cluster1, g, fail))
  \/ \E unavailable \in BOOLEAN : Free(FetchStep(Cluster1, unavailable))
  \/ \E fail \in BOOLEAN : Free(ProvisionStep(Cluster1, fail))
  \/ \E fail \in BOOLEAN : Free(DeleteStep(Cluster1, fail))
  \/ \E ref \in {NoRef, RerunRef} : Free(SetReference(Cluster1, ref))
  \/ \E payload \in UserPayloads \cup {Absent} :
       Free(WriteSecret(SecretKey(Cluster1.namespace, RerunRef), payload))
  \/ Free(Tick)

SpecRerun == Init /\ [][NextRerun]_vars

\* the store before any pass
EmptyStore == [k \in StoreKeys |-> Absent]

\* the first pass of c, run to its end on the empty store with no reference and
\* no global CA: the provisioner creates the self-signed CA of c
FirstProvision(c) == ReconcileCAForOwner(EmptyStore, c, 0, 0, RotationParams, FALSE)

FirstPass(c) ==
  LET p == [NewPass(NoRef, NoCA, {}) EXCEPT !.watch = NoErr]
      q == AfterFetch(p, GetSecretFromRef(EmptyStore, c, NoRef, FALSE)).pass
  IN AfterProvision(q, FirstProvision(c))

\* every cluster has run its first pass and holds a self-signed CA; since then
\* the users have set references and written the referenced secrets as they liked
InitPair ==
  /\ spec \in [Clusters -> {NoRef, RerunRef}]
  /\ \E written \in [Namespaces -> UserPayloads \cup {Absent}] :
       secrets = [k \in StoreKeys |->
                   IF k \in UserKeys
                     THEN IF k.name = RerunRef THEN written[k.namespace] ELSE Absent
                     ELSE FirstProvision(CHOOSE c \in Clusters : c.namespace = k.namespace).ca]
  /\ watches = {}
  /\ now = 0
  /\ gen = [c \in Clusters |-> FirstProvision(c).gen]
  /\ steps = 0
  /\ pc = [c \in Clusters |-> "done"]
  /\ pass = [c \in Clusters |-> FirstPass(c)]
  /\ last = [c \in Clusters |-> NoCA]
  /\ observed = [c \in Clusters |-> NoRef]
  /\ prev = [c \in Clusters |-> Outcome(NewPass(NoRef, NoCA, {}))]
  /\ endpoints = [k \in ServiceKeys |-> NoEndpoints]
  /\ ready = NotCalled

\* the passes of all clusters interleave call by call over the settled store
NextPair ==
  \/ \E c \in Clusters, g \in {NoCA, GlobalCA}, fail \in BOOLEAN :
       Counted(WatchStep(c, g, fail))
  \/ \E c \in Clusters, unavailable \in BOOLEAN : Counted(FetchStep(c, unavailable))
  \/ \E c \in Clusters, fail \in BOOLEAN : Counted(ProvisionStep(c, fail))
  \/ \E c \in Clusters, fail \in BOOLEAN : Counted(DeleteStep(c, fail))
  \/ Free(Tick)

SpecPair == InitPair /\ [][NextPair]_vars

(* ------------------------ readiness of services ------------------------ *)

\* the store holds any Endpoints objects; nothing else has happened
InitReady ==
  /\ NoPassYet
  /\ endpoints \in [ServiceKeys -> EndpointsValues]
  /\ ready = NotCalled

\* IsServiceReady is called for a service
CheckService(service, unavailable) ==
  /\ LET r == IsServiceReady(endpoints, service, unavailable)
     IN ready' = [called |-> TRUE, service |-> service, unavailable |-> unavailable,
                  ok |-> r.ok, err |-> r.err]
  /\ UNCHANGED <<caVars, endpoints>>

NextReady == \E service \in Services, unavailable \in BOOLEAN : CheckService(service, unavailable)

SpecReady == InitReady /\ [][NextReady]_vars

(* ------------------------------ claims --------------------------------- *)

Done(c) == pc[c] = "done"

\* cluster c takes a step of its pass
Acts(c) == pc'[c] # pc[c] \/ pass'[c] # pass[c]

\* the pass of c got past its watch step and found no custom CA reference
NoCustomCA(p) == p.watch = NoErr /\ p.ref = NoRef

\* the pass of c fetched the referenced custom CA secret
Fetched(p) == p.fetch = NoErr /\ p.found

\* the secret the pass fetched holds a valid CA
HoldsCA(p) == ParseCustomCASecret(p.secret).err = NoErr

\* C1: a pass whose custom CA reference names a secret that is fetched and parses
\* as a CA returns the CA parsed from that secret, and no error, whether or not a
\* global CA is supplied and whether or not a self-signed CA secret exists.
C1_CustomCAReturned ==
  \A c \in Clusters :
    (Done(c) /\ Fetched(pass[c]) /\ HoldsCA(pass[c])) =>
      /\ pass[c].err = NoErr
      /\ pass[c].source = "custom"
      /\ pass[c].ca = ParseCustomCASecret(pass[c].secret).ca
      /\ pass[c].ca = CA("custom", pass[c].secret.id, pass[c].secret.notAfter)

\* the custom CA was returned with a global CA supplied and after the self-signed
\* CA secret, which existed, was deleted
C1_Witness ==
  \E c \in Clusters :
    /\ Done(c) /\ Fetched(pass[c]) /\ HoldsCA(pass[c])
    /\ pass[c].globalCA = GlobalCA
    /\ pass[c].deleted = NoErr
    /\ pass[c].ca = CA("custom", 2, 0)

\* C2: a pass that finds no custom CA reference and is given a global CA returns
\* the global CA and no error; it does not call the self-signed provisioner or
\* Delete, and none of its steps changes the secret store.
C2_SharedCAReturnedStoreUntouched ==
  /\ [](\A c \in Clusters :
          (Done(c) /\ NoCustomCA(pass[c]) /\ pass[c].globalCA # NoCA) =>
            /\ pass[c].ca = pass[c].globalCA
            /\ pass[c].err = NoErr
            /\ pass[c].source = "shared"
            /\ ~pass[c].provisioned
            /\ pass[c].deletes = 0)
  /\ [][\A c \in Clusters :
          (Acts(c) /\ pass'[c].ref = NoRef /\ pass'[c].globalCA # NoCA) =>
            secrets' = secrets]_vars

\* the global CA was returned while the self-signed CA secret of the cluster, left
\* by an earlier pass, is still in the store
C2_Witness ==
  \E c \in Clusters :
    /\ Done(c) /\ NoCustomCA(pass[c]) /\ pass[c].ca = GlobalCA
    /\ secrets[SelfSignedSecretKey(c)].kind = "selfsigned"

\* C3: a pass that finds no custom CA reference and is given no global CA calls
\* the self-signed provisioner and returns its result: the CA persisted in the
\* cluster's self-signed CA secret.  When the pass before returned a self-signed
\* CA that has not reached its rotation threshold, the pass returns that same CA
\* and leaves the secret store as it is.
C3_SelfSignedCAStable ==
  /\ [](\A c \in Clusters :
          (Done(c) /\ NoCustomCA(pass[c]) /\ pass[c].globalCA = NoCA) =>
            /\ pass[c].provisioned
            /\ pass[c].source # "shared" /\ pass[c].source # "custom"
            /\ pass[c].err = NoErr =>
                 /\ pass[c].source = "selfsigned"
                 /\ pass[c].ca.kind = "selfsigned"
                 /\ pass[c].ca = secrets[SelfSignedSecretKey(c)]
            /\ pass[c].err # NoErr => pass[c].ca = NoCA)
  /\ [][\A c \in Clusters :
          ( /\ pc[c] = "provision" /\ pc'[c] = "done"
            /\ last[c] # NoCA
            /\ CanReuseCA(last[c], now, RotationParams) ) =>
            /\ pass'[c].ca = last[c]
            /\ pass'[c].err = NoErr
            /\ secrets' = secrets]_vars

\* two passes in succession returned the same self-signed CA
C3_Witness ==
  \E c \in Clusters :
    /\ Done(c) /\ NoCustomCA(pass[c]) /\ pass[c].globalCA = NoCA
    /\ pass[c].source = "selfsigned"
    /\ last[c] = pass[c].ca

\* C4: a pass whose fetch finds the referenced custom CA secret missing returns
\* that error and no CA, without falling back to the global or the self-signed
\* CA; it emits a warning event, and leaves the secret store as it is.
C4_MissingSecretIsAnError ==
  /\ [](\A c \in Clusters :
          (Done(c) /\ pass[c].fetch = ErrNotFound) =>
            /\ pass[c].err = ErrNotFound
            /\ pass[c].ca = NoCA /\ pass[c].source = "none"
            /\ ~pass[c].provisioned
            /\ pass[c].deletes = 0
            /\ Len(pass[c].events) = 1
            /\ pass[c].events[1].type = "Warning"
            /\ pass[c].events[1].message = ErrNotFound)
  /\ [][\A c \in Clusters :
          (Acts(c) /\ pass'[c].fetch \in {"none", ErrNotFound}) =>
            secrets' = secrets]_vars

\* the fetch found the secret missing although a global CA was supplied and a
\* self-signed CA secret is persisted
C4_Witness ==
  \E c \in Clusters :
    /\ Done(c) /\ pass[c].fetch = ErrNotFound
    /\ pass[c].globalCA = GlobalCA
    /\ secrets[SelfSignedSecretKey(c)].kind = "selfsigned"

\* C5: a pass whose custom CA secret is fetched but does not parse as a CA
\* returns the parse error and no CA; it emits one event, a warning with the
\* validation reason carrying the error; it issues no Delete and leaves the
\* secret store as it is.
C5_InvalidSecretIsAnError ==
  /\ [](\A c \in Clusters :
          (Done(c) /\ Fetched(pass[c]) /\ ~HoldsCA(pass[c])) =>
            /\ pass[c].err = ParseCustomCASecret(pass[c].secret).err
            /\ pass[c].err = ErrInvalid
            /\ pass[c].ca = NoCA /\ pass[c].source = "none"
            /\ pass[c].events = <<Event("Warning", "Validation", ErrInvalid)>>
            /\ pass[c].deletes = 0
            /\ ~pass[c].provisioned)
  /\ [][\A c \in Clusters :
          (Acts(c) /\ Fetched(pass'[c]) /\ ~HoldsCA(pass'[c])) =>
            secrets' = secrets]_vars

\* an invalid custom CA secret was fetched while a self-signed CA secret is persisted
C5_Witness ==
  \E c \in Clusters :
    /\ Done(c) /\ Fetched(pass[c]) /\ pass[c].secret = Garbage
    /\ pass[c].err = ErrInvalid
    /\ secrets[SelfSignedSecretKey(c)].kind = "selfsigned"

\* C6: a pass whose fetch of the custom CA secret fails because the store is
\* unavailable returns that error and emits no event; a pass emits events only
\* when the referenced secret is missing or invalid.
C6_TransientFetchErrorEmitsNoEvent ==
  \A c \in Clusters :
    Done(c) =>
      /\ pass[c].fetch = ErrUnavailable =>
           pass[c].err = ErrUnavailable /\ pass[c].events = << >>
      /\ pass[c].events # << >> =>
           pass[c].fetch = ErrNotFound \/ pass[c].parse = ErrInvalid

\* C7: on the custom CA path the outcome of deleting the self-signed CA secret
\* (deleted, not found, or any other error) never fails the pass: it returns the
\* parsed custom CA and no error, and emits no event.
C7_DeleteFailureNeverFailsPass ==
  \A c \in Clusters :
    (Done(c) /\ pass[c].deletes > 0) =>
      /\ pass[c].deleted \in {NoErr, ErrNotFound, ErrUnavailable}
      /\ pass[c].err = NoErr
      /\ pass[c].ca = pass[c].custom
      /\ pass[c].ca.kind = "custom"
      /\ pass[c].events = << >>

\* the delete failed, the self-signed CA secret is still there, the pass succeeded
C7_Witness ==
  \E c \in Clusters :
    /\ Done(c) /\ pass[c].deleted = ErrUnavailable
    /\ secrets[SelfSignedSecretKey(c)].kind = "selfsigned"
    /\ pass[c].err = NoErr /\ pass[c].ca.kind = "custom"

\* C8: a pass issues a Delete only after its custom CA secret was fetched and
\* parsed without error, and then exactly one; the self-signed CA secret of a
\* cluster leaves the store only in that step; and after a pass whose delete
\* succeeded the self-signed CA secret of the cluster is not in the store.
C8_DeleteOnlyOnCustomPath ==
  /\ [](\A c \in Clusters :
          /\ pass[c].deletes <= 1
          /\ pass[c].deletes = 1 =>
               /\ Fetched(pass[c]) /\ HoldsCA(pass[c])
               /\ ~pass[c].provisioned
          /\ (Done(c) /\ Fetched(pass[c]) /\ HoldsCA(pass[c])) => pass[c].deletes = 1
          /\ (Done(c) /\ pass[c].deleted = NoErr) =>
               secrets[SelfSignedSecretKey(c)] = Absent)
  /\ [][\A c \in Clusters :
          ( /\ secrets[SelfSignedSecretKey(c)] # Absent
            /\ secrets'[SelfSignedSecretKey(c)] = Absent ) =>
            /\ pc[c] = "gc" /\ pc'[c] = "done"
            /\ Fetched(pass[c]) /\ HoldsCA(pass[c])
            /\ pass'[c].deleted = NoErr]_vars

\* the pass before returned the self-signed CA, this pass returned the custom CA
\* and its delete succeeded
C8_Witness ==
  \E c \in Clusters :
    /\ Done(c) /\ last[c].kind = "selfsigned"
    /\ pass[c].source = "custom" /\ pass[c].deletes = 1 /\ pass[c].deleted = NoErr
    /\ secrets[SelfSignedSecretKey(c)] = Absent

\* the registry holds for c what the last watch step of c saw in its spec
WatchReflectsReference(c) ==
  IF observed[c] = NoRef
    THEN RegistrationsOf(c) = {}
    ELSE RegistrationsOf(c) =
           {Registration(CustomTransportCertsWatchKey(c), c,
                         SecretKey(c.namespace, observed[c]))}

\* C9: after any sequence of passes of one cluster, the registry holds under the
\* cluster's watch key exactly one registration, owned by the cluster and aimed
\* at the referenced secret, when the reference last seen by a successful watch
\* step is present, and none when it is absent.
C9_WatchReflectsReference ==
  \A c \in Clusters :
    observed[c] # "unobserved" =>
      /\ WatchReflectsReference(c)
      /\ Cardinality(RegistrationsOf(c)) = (IF observed[c] = NoRef THEN 0 ELSE 1)

\* a pass found the registration of ca1 under the key, saw the reference ca2 and
\* left the one registration of ca2
C9_Witness ==
  \E c \in Clusters :
    /\ pass[c].watch = NoErr /\ observed[c] = "ca2"
    /\ pass[c].watched =
         {Registration(CustomTransportCertsWatchKey(c), c, SecretKey(c.namespace, "ca1"))}
    /\ RegistrationsOf(c) =
         {Registration(CustomTransportCertsWatchKey(c), c, SecretKey(c.namespace, "ca2"))}

\* C10: whatever the interleaving of the passes of two distinct clusters, the
\* registry holds for each of them what its own last successful watch step saw.
C10_WatchesOfClustersIndependent ==
  \A c1, c2 \in Clusters :
    (c1 # c2 /\ observed[c1] # "unobserved" /\ observed[c2] # "unobserved") =>
      WatchReflectsReference(c1) /\ WatchReflectsReference(c2)

\* C11: a pass whose watch step fails, installing or removing the watch, returns
\* that error and no CA at once: it does not fetch the custom CA secret, emits no
\* event, calls neither the provisioner nor Delete, and its step leaves the
\* secret store as it is.
C11_WatchFailureEndsPass ==
  /\ [](\A c \in Clusters :
          (Done(c) /\ pass[c].watch \notin {"none", NoErr}) =>
            /\ pass[c].err = pass[c].watch
            /\ pass[c].err = ErrWatch
            /\ pass[c].ca = NoCA /\ pass[c].source = "none"
            /\ pass[c].fetch = "none" /\ ~pass[c].found
            /\ pass[c].events = << >>
            /\ ~pass[c].provisioned
            /\ pass[c].deletes = 0)
  /\ [][\A c \in Clusters :
          (Acts(c) /\ pass'[c].watch = ErrWatch) =>
            /\ pc'[c] = "done"
            /\ secrets' = secrets]_vars

\* installing the watch failed although the referenced secret holds a CA and a
\* self-signed CA secret is persisted
C11_Witness ==
  \E c \in Clusters :
    /\ Done(c) /\ pass[c].watch = ErrWatch
    /\ pass[c].ref = "ca1"
    /\ secrets[SecretKey(c.namespace, "ca1")] = PemA
    /\ secrets[SelfSignedSecretKey(c)].kind = "selfsigned"

\* the pass of c found a watch under the cluster's key and no reference in the
\* spec: the reference went from present to absent
ReferenceRemoved(p) == p.watch = NoErr /\ p.ref = NoRef /\ p.watched # {}

\* cluster c takes the step that calls the self-signed provisioner
Provisions(c) == pc[c] = "provision" /\ pc'[c] = "done"

\* the pass before the current one of c returned the custom CA
CustomWasActive(c) == prev[c].source = "custom" /\ prev[c].err = NoErr

\* C12 as stated: the custom CA was active, the reference is removed and no
\* global CA is supplied; the pass that follows provisions a fresh self-signed CA.
C12_FreshCAAfterReferenceRemoved ==
  [][\A c \in Clusters :
       (/\ Provisions(c) /\ CustomWasActive(c) /\ ReferenceRemoved(pass[c])
        /\ pass'[c].err = NoErr) =>
         /\ gen'[c] = gen[c] + 1
         /\ pass'[c].ca.id = gen'[c]
         /\ pass'[c].ca # secrets[SelfSignedSecretKey(c)]]_vars

\* C12 as amended: the pass that follows the removal of the custom CA reference
\* removes the watch and, given no global CA, calls the self-signed provisioner
\* in that same pass; the CA it returns is a fresh one when the cluster's
\* self-signed CA secret is absent or past its rotation threshold, and the
\* retained one otherwise.
C12_ProvisionsAfterReferenceRemoved ==
  /\ [](\A c \in Clusters :
          (Done(c) /\ ReferenceRemoved(pass[c])) =>
            /\ RegistrationsOf(c) = {}
            /\ pass[c].globalCA = NoCA =>
                 /\ pass[c].provisioned
                 /\ pass[c].err = NoErr =>
                      /\ pass[c].source = "selfsigned"
                      /\ pass[c].ca = secrets[SelfSignedSecretKey(c)])
  /\ [][\A c \in Clusters :
          (Provisions(c) /\ ReferenceRemoved(pass[c])) =>
            IF CanReuseCA(secrets[SelfSignedSecretKey(c)], now, RotationParams)
              THEN /\ pass'[c].ca = secrets[SelfSignedSecretKey(c)]
                   /\ pass'[c].err = NoErr
                   /\ secrets' = secrets /\ gen' = gen
              ELSE pass'[c].err = NoErr =>
                     /\ gen'[c] = gen[c] + 1
                     /\ pass'[c].ca = CA("selfsigned", gen'[c],
                                         now + RotationParams.validity)
                     /\ pass'[c].ca # secrets[SelfSignedSecretKey(c)]
                     /\ secrets'[SelfSignedSecretKey(c)] = pass'[c].ca]_vars

\* the custom CA was active, the reference was removed and the pass returned the
\* cluster's second self-signed CA, generated at time 0: the first one had been
\* deleted
C12_Witness ==
  \E c \in Clusters :
    /\ Done(c) /\ CustomWasActive(c) /\ ReferenceRemoved(pass[c])
    /\ pass[c].source = "selfsigned"
    /\ pass[c].ca = CA("selfsigned", 2, RotationParams.validity)
    /\ RegistrationsOf(c) = {}

\* C13: every pass ends in exactly one of two outcomes: one CA with a nil error,
\* which is the parsed custom CA, the global CA that was passed in or the CA of
\* the self-signed provisioner; or no CA with a non-nil error. Never both, never
\* neither.
C13_OneOutcomePerPass ==
  \A c \in Clusters :
    Done(c) =>
      LET p == pass[c]
      IN \/ /\ p.err = NoErr /\ p.ca # NoCA
            /\ \/ /\ p.source = "custom" /\ p.ca.kind = "custom"
                  /\ Fetched(p) /\ p.ca = ParseCustomCASecret(p.secret).ca
               \/ /\ p.source = "shared" /\ p.ca.kind = "global"
                  /\ p.ca = p.globalCA /\ ~p.provisioned
               \/ /\ p.source = "selfsigned" /\ p.ca.kind = "selfsigned"
                  /\ p.provisioned /\ NoCustomCA(p)
         \/ /\ p.err # NoErr /\ p.ca = NoCA /\ p.source = "none"

\* a pass ended with the validation error and no CA, after the pass before it
\* had returned a self-signed CA
C13_Witness ==
  \E c \in Clusters :
    /\ Done(c) /\ pass[c].err = ErrInvalid /\ pass[c].ca = NoCA
    /\ last[c].kind = "selfsigned"

\* C14 as stated: a pass that returns an error leaves the state, the secret
\* store and the watch registry, as it was before the pass.
C14_ErrorPassLeavesStateAsBefore ==
  /\ [](\A c \in Clusters :
          (Done(c) /\ pass[c].err # NoErr) =>
            /\ pass[c].deletes = 0
            /\ RegistrationsOf(c) = pass[c].watched)
  /\ [][\A c \in Clusters :
          (Acts(c) /\ pc'[c] = "done" /\ pass'[c].err # NoErr) =>
            secrets' = secrets]_vars

\* C14 as amended: a pass that returns an error leaves the secret store as it
\* was before the pass: no step of a pass changes the store but the last step
\* of a pass that returns a CA, and a pass that returns an error has issued no
\* Delete. What the watch step did to the registry before the error is kept.
C14_ErrorPassLeavesStoreUntouched ==
  /\ [](\A c \in Clusters :
          (Done(c) /\ pass[c].err # NoErr) =>
            /\ pass[c].deletes = 0 /\ pass[c].ca = NoCA
            /\ pass[c].watch = NoErr =>
                 /\ observed[c] = pass[c].ref
                 /\ WatchReflectsReference(c))
  /\ [][\A c \in Clusters :
          (Acts(c) /\ ~(pc'[c] = "done" /\ pass'[c].err = NoErr)) =>
            /\ secrets' = secrets
            /\ gen' = gen]_vars

\* a pass ended with the validation error: the self-signed CA the pass before
\* had returned is still persisted, and the watch the pass registered is kept
C14_Witness ==
  \E c \in Clusters :
    /\ Done(c) /\ pass[c].err = ErrInvalid /\ pass[c].ref = "ca1"
    /\ last[c].kind = "selfsigned"
    /\ secrets[SelfSignedSecretKey(c)] = last[c]
    /\ pass[c].watched = {}
    /\ RegistrationsOf(c) =
         {Registration(CustomTransportCertsWatchKey(c), c, SecretKey(c.namespace, "ca1"))}

\* C15: a step of a pass of cluster a changes no secret but the one named
\* <a.name>-es-transport-ca-internal in the namespace of a, and removes it only
\* by the Delete of the custom-CA path: the self-signed CA secret of another
\* cluster is never deleted or replaced, however the passes interleave.
C15_PassTouchesOnlyOwnSecret ==
  [][\A a \in Clusters :
       Acts(a) =>
         \A k \in StoreKeys :
           secrets'[k] # secrets[k] =>
             /\ k.namespace = a.namespace
             /\ k.name = CAInternalSecretName(a.name)
             /\ secrets'[k] = Absent => pc[a] = "gc"]_vars

\* the pass of ns1/es has deleted the self-signed CA secret of ns1/es while the
\* second pass of ns2/es was under way; the self-signed CA of ns2/es is persisted
C15_Witness ==
  /\ Done(Cluster1) /\ pass[Cluster1].source = "custom" /\ pass[Cluster1].deleted = NoErr
  /\ secrets[SelfSignedSecretKey(Cluster1)] = Absent
  /\ pc[Cluster2] = "provision" /\ last[Cluster2] = FirstProvision(Cluster2).ca
  /\ secrets[SelfSignedSecretKey(Cluster2)] = FirstProvision(Cluster2).ca

\* the current pass of c runs the custom-CA path again on the inputs of the pass
\* before: the same reference, the same content of the referenced secret
Rerun(c) ==
  /\ CustomWasActive(c)
  /\ pass[c].watch = NoErr /\ pass[c].ref = prev[c].ref
  /\ Fetched(pass[c]) /\ pass[c].secret = prev[c].secret

\* cluster c takes the step that calls Delete
Collects(c) == pc[c] = "gc" /\ pc'[c] = "done"

\* C16 as stated: every run of the custom-CA path after the first gets not-found
\* from its Delete, when the store answers it at all, returns the CA of the first
\* run and leaves the store and the watch registry as the first run left them.
C16_LaterRunsGetNotFound ==
  /\ [](\A c \in Clusters :
          (Done(c) /\ Rerun(c)) =>
            /\ pass[c].ca = prev[c].ca /\ pass[c].err = NoErr
            /\ pass[c].deleted # ErrUnavailable => pass[c].deleted = ErrNotFound
            /\ RegistrationsOf(c) = pass[c].watched)
  /\ [][\A c \in Clusters : (Collects(c) /\ Rerun(c)) => secrets' = secrets]_vars

\* C16 as amended: every run of the custom-CA path on unchanged inputs returns
\* the same custom CA with a nil error and leaves the watch registry as it found
\* it. A Delete removes the self-signed CA secret if it is there and the store
\* answers; once a run's Delete has ended with nil or not-found, every later
\* run finds the secret absent, its Delete ends with not-found or a store error,
\* and the store stays as it is.
C16_RerunIsIdempotent ==
  /\ [](\A c \in Clusters :
          (Done(c) /\ Rerun(c)) =>
            /\ pass[c].ca = prev[c].ca /\ pass[c].err = NoErr
            /\ pass[c].source = "custom" /\ pass[c].deletes = 1
            /\ RegistrationsOf(c) = pass[c].watched
            /\ RegistrationsOf(c) =
                 {Registration(CustomTransportCertsWatchKey(c), c,
                               SecretKey(c.namespace, pass[c].ref))}
            /\ prev[c].deleted \in {NoErr, ErrNotFound} =>
                 /\ pass[c].deleted \in {ErrNotFound, ErrUnavailable}
                 /\ secrets[SelfSignedSecretKey(c)] = Absent)
  /\ [][\A c \in Clusters :
          Collects(c) =>
            /\ IF pass'[c].deleted = NoErr
                 THEN /\ secrets[SelfSignedSecretKey(c)] # Absent
                      /\ secrets' = [secrets EXCEPT ![SelfSignedSecretKey(c)] = Absent]
                 ELSE /\ secrets' = secrets
                      /\ pass'[c].deleted = ErrNotFound =>
                           secrets[SelfSignedSecretKey(c)] = Absent
            /\ (Rerun(c) /\ prev[c].deleted \in {NoErr, ErrNotFound}) =>
                 secrets' = secrets]_vars

\* the first run deleted the self-signed CA secret; the run after it, on the
\* same reference and secret, got not-found and returned the same custom CA
C16_Witness ==
  \E c \in Clusters :
    /\ Done(c) /\ Rerun(c)
    /\ prev[c].deleted = NoErr /\ pass[c].deleted = ErrNotFound
    /\ pass[c].ca = prev[c].ca /\ pass[c].ca = ParseCustomCASecret(PemA).ca
    /\ pass[c].err = NoErr

\* the pass found the referenced secret missing or invalid
SecretUnusable(p) ==
  /\ p.watch = NoErr /\ p.ref # NoRef
  /\ p.fetch = ErrNotFound \/ (Fetched(p) /\ ~HoldsCA(p))

\* the one registration of c on the secret that ref names
WatchOn(c, ref) ==
  {Registration(CustomTransportCertsWatchKey(c), c, SecretKey(c.namespace, ref))}

\* the clusters re-queued when secret k is written
Requeued(k) == {w.owner : w \in {v \in watches : v.target = k}}

\* the pass before failed on a missing or invalid secret, and the current pass
\* of c has the same reference
RetryAfterUnusable(c) ==
  /\ prev[c].err \in {ErrNotFound, ErrInvalid} /\ prev[c].ref # NoRef
  /\ pc[c] # "idle" /\ pass[c].watch = NoErr /\ pass[c].ref = prev[c].ref

\* C17: the secret is fetched only after the watch step; a pass that finds the
\* referenced secret missing or invalid returns an error and leaves the watch on
\* that secret registered, so a write to the secret re-queues the cluster; the
\* pass after it finds the watch registered and, when it fetches a valid secret,
\* returns the custom CA parsed from it.
C17_WatchKeptWhenSecretUnusable ==
  \A c \in Clusters :
    /\ pass[c].fetch # "none" => pass[c].watch = NoErr
    /\ (Done(c) /\ SecretUnusable(pass[c])) =>
         /\ pass[c].err \in {ErrNotFound, ErrInvalid} /\ pass[c].ca = NoCA
         /\ RegistrationsOf(c) = WatchOn(c, pass[c].ref)
         /\ c \in Requeued(SecretKey(c.namespace, pass[c].ref))
    /\ RetryAfterUnusable(c) =>
         /\ pass[c].watched = WatchOn(c, pass[c].ref)
         /\ (Done(c) /\ Fetched(pass[c]) /\ HoldsCA(pass[c])) =>
              /\ pass[c].err = NoErr /\ pass[c].source = "custom"
              /\ pass[c].ca = ParseCustomCASecret(pass[c].secret).ca

\* a pass failed because the referenced secret was missing; the secret was then
\* created, and the pass after it found the watch registered and returned the
\* custom CA
C17_Witness ==
  \E c \in Clusters :
    /\ Done(c) /\ RetryAfterUnusable(c) /\ prev[c].err = ErrNotFound
    /\ pass[c].watched = WatchOn(c, RerunRef)
    /\ pass[c].source = "custom" /\ pass[c].ca = ParseCustomCASecret(PemA).ca

\* C18: a pass that read a custom CA reference in the spec never calls the
\* self-signed provisioner and never returns the global CA or a self-signed CA,
\* whether or not a global CA was passed in and whatever became of the fetch and
\* the parse: it returns the parsed custom CA, or no CA and an error.
C18_ReferenceExcludesOtherSources ==
  /\ [](\A c \in Clusters :
          (pc[c] # "idle" /\ pass[c].ref # NoRef) =>
            /\ pc[c] # "provision" /\ ~pass[c].provisioned
            /\ pass[c].source \notin {"shared", "selfsigned"}
            /\ pass[c].ca.kind \notin {"global", "selfsigned"}
            /\ Done(c) =>
                 \/ /\ pass[c].err = NoErr /\ pass[c].source = "custom"
                    /\ Fetched(pass[c])
                    /\ pass[c].ca = ParseCustomCASecret(pass[c].secret).ca
                 \/ pass[c].err # NoErr /\ pass[c].ca = NoCA)
  /\ [][\A c \in Clusters :
          (Acts(c) /\ pass'[c].ref # NoRef) =>
            /\ gen' = gen
            /\ \A k \in StoreKeys : secrets'[k] # secrets[k] => secrets'[k] = Absent]_vars

\* the referenced secret was not found: the pass returned the error although a
\* global CA was passed in and a self-signed CA of the cluster is persisted
C18_Witness ==
  \E c \in Clusters :
    /\ Done(c) /\ pass[c].ref = "ca2" /\ pass[c].globalCA = GlobalCA
    /\ pass[c].fetch = ErrNotFound /\ pass[c].err = ErrNotFound
    /\ secrets[SelfSignedSecretKey(c)].kind = "selfsigned"

\* the Endpoints object with the namespace and the name of the service of the
\* last call
EndpointsOfCall == endpoints[SecretKey(ready.service.namespace, ready.service.name)]

\* the lookup of the last call failed
LookupFailed == ready.unavailable \/ ~EndpointsOfCall.exists

\* C19: IsServiceReady returns (true, nil) exactly when the lookup succeeds and
\* the Endpoints object with the service's namespace and name has a subset with
\* at least one address; (false, nil) when the lookup succeeds and there are no
\* subsets or none has an address; (false, err) when the lookup fails.
C19_IsServiceReady ==
  ready.called =>
    LET subs == EndpointsOfCall.subsets
        populated == \E i \in 1..Len(subs) : subs[i].addresses >= 1
    IN /\ (ready.ok /\ ready.err = NoErr) <=> (~LookupFailed /\ populated)
       /\ (~ready.ok /\ ready.err = NoErr) <=> (~LookupFailed /\ ~populated)
       /\ (~ready.ok /\ ready.err # NoErr) <=> LookupFailed
       /\ ~(ready.ok /\ ready.err # NoErr)

\* the service of ns2 was found ready: its Endpoints hold an empty subset and
\* then one with an address, while the service of the same name in ns1 has none
C19_Witness ==
  /\ ready.called /\ ready.ok /\ ready.err = NoErr
  /\ ready.service = [namespace |-> "ns2", name |-> "es-http"]
  /\ endpoints[SecretKey("ns2", "es-http")].subsets = <<Subset(0), Subset(1)>>
  /\ ~endpoints[SecretKey("ns1", "es-http")].exists

====
